---------------------------- MODULE Spec2Model ----------------------------
(***************************************************************************)
(* Fleet dispatch of adbpy: AdbMultiExecute.__call__ (src/adb.py) fans one *)
(* adb command out to a list of serial numbers through a ThreadPool and    *)
(* zips the per-device (stdout, stderr) pairs into a dict.                 *)
(*                                                                         *)
(* The sources are Python 2 (src/adb.py:319 subscripts dict.keys(),        *)
(* src/adb.py:51-52 hands an encoded str to shlex.split): dict.keys() is a *)
(* list and a dict iterates in hash order, not in insertion order.         *)
(***************************************************************************)
EXTENDS Naturals, Integers, Sequences, FiniteSets, TLC

(* ------------------------------ bounds -------------------------------- *)

\* longest explicit serialnos list handed to one dispatch call
MaxLen == 3

\* most lines in the stdout of one "adb devices" run
MaxLines == 3

\* longest remote path handed to remotepath, in characters
MaxPath == 5

\* longest remote path handed to a shell command, in characters
MaxRemote == 2

\* longest list of serial numbers a handle is scoped to
MaxScope == 2

\* most lines "adb devices" prints while a handle is iterated
MaxAttached == 2

\* most iterations of a handle in one run
MaxProbes == 2

\* value of multiprocessing.cpu_count() on the modelled host
CpuCount == 1

(* --------------------------- value domains ---------------------------- *)

\* serial numbers of devices (opaque, non-empty strings)
Devices == {"d1", "d2"}

\* commands handed to dispatch (the arg parameter)
Args == {"get-serialno", "version"}

\* raw stdout of one adb process, before sysprocess strips it
RawOutputs == {"o1", " o1\n", "o2"}

ADB_PATH == "adb.exe"

THREADS == CpuCount * 2

\* Python's None
None == "<None>"

\* the value of an AsyncResult that is not ready
NoValue == <<"<pending>", "<pending>">>

\* the value slot of an AsyncResult whose call raised (Popen: OSError)
SpawnError == <<"<OSError>", "<OSError>">>

\* the serialnos argument of dispatch: None, one string, or a list/tuple
NoTargets == [kind |-> "none", items |-> <<>>]

StrTarget(s) == [kind |-> "str", items |-> <<s>>]

ListTarget(q) == [kind |-> "list", items |-> q]

SeqsUpTo(S, n) == UNION {[1..k -> S] : k \in 0..n}

Targets ==
    {NoTargets} \cup {StrTarget(s) : s \in Devices}
                \cup {ListTarget(q) : q \in SeqsUpTo(Devices, MaxLen)}

\* one line of the "adb devices" output, as its tab-separated fields
Lines ==
    { <<"List of devices attached">>,
      <<"d1", "device">>,
      <<"d2", "device">>,
      <<"d2", "offline">>,
      <<"* daemon started successfully *">> }

Listings == SeqsUpTo(Lines, MaxLines)

(* ------------------------------ helpers ------------------------------- *)

Range(q) == {q[i] : i \in 1..Len(q)}

\* sequences that list every element of the finite set S exactly once
Perms(S) ==
    {q \in [1..Cardinality(S) -> S] : Range(q) = S}

\* str.strip() on the outputs of the modelled processes
Strip(s) == IF s = " o1\n" THEN "o1" ELSE s

\* Truthy as a test against None only: an empty list counts as given
TruthyNotNone(t) == t.kind # "none"

\* truth value of the serialnos argument (None, '' and [] are false)
Truthy(t) ==
    CASE t.kind = "none" -> FALSE
      [] t.kind = "str"  -> t.items[1] # ""
      [] OTHER           -> Len(t.items) > 0

Min(a, b) == IF a <= b THEN a ELSE b

\* Zip with an off-by-one end: the last pair is lost
ZipDropsLast(a, b) == [i \in 1..(Min(Len(a), Len(b)) - 1) |-> <<a[i], b[i]>>]

\* zip(a, b): the pairs of a and b, position by position, up to the shorter
Zip(a, b) == [i \in 1..Min(Len(a), Len(b)) |-> <<a[i], b[i]>>]

\* DictOf that keeps the first pair of a key instead of the last
DictOfFirstWins(pairs) ==
    [k \in {pairs[i][1] : i \in 1..Len(pairs)} |->
        pairs[CHOOSE i \in 1..Len(pairs) :
                 /\ pairs[i][1] = k
                 /\ \A j \in 1..Len(pairs) : pairs[j][1] = k => i <= j][2]]

\* dict(pairs): a later pair with the same key overwrites the earlier one
DictOf(pairs) ==
    [k \in {pairs[i][1] : i \in 1..Len(pairs)} |->
        pairs[CHOOSE i \in 1..Len(pairs) :
                 /\ pairs[i][1] = k
                 /\ \A j \in 1..Len(pairs) : pairs[j][1] = k => j <= i][2]]

\* the orders in which a Python 2 dict holding the keys of d can iterate:
\* the hash order of the key strings, which no insertion order fixes
KeyOrders(d) == Perms(DOMAIN d)

(* ---------------------------- remote paths ---------------------------- *)

\* the characters of the modelled paths: a name character, the separator,
\* the dot, the backslash and a blank; a path is a sequence of characters
PathChars == {"a", "/", ".", "\\", " "}

Paths == SeqsUpTo(PathChars, MaxPath)

Last(q) == q[Len(q)]

Front(q) == SubSeq(q, 1, Len(q) - 1)

\* str.endswith(c) for a character c
EndsWith(q, c) == q # <<>> /\ Last(q) = c

\* str.startswith(prefix)
StartsWith(q, prefix) ==
    Len(q) >= Len(prefix) /\ SubSeq(q, 1, Len(prefix)) = prefix

\* str.strip(): blanks at both ends go
RECURSIVE StripWs(_)
StripWs(q) ==
    IF q = <<>> THEN q
    ELSE IF Head(q) = " " THEN StripWs(Tail(q))
    ELSE IF Last(q) = " " THEN StripWs(Front(q))
    ELSE q

\* str.replace('\\', '/')
ReplaceBackslash(q) ==
    [i \in 1..Len(q) |-> IF q[i] = "\\" THEN "/" ELSE q[i]]

\* str.split(sep): the pieces between the separators, empty ones included
RECURSIVE SplitFrom(_, _, _)
SplitFrom(q, sep, piece) ==
    IF q = <<>> THEN <<piece>>
    ELSE IF Head(q) = sep THEN <<piece>> \o SplitFrom(Tail(q), sep, <<>>)
    ELSE SplitFrom(Tail(q), sep, Append(piece, Head(q)))

Split(q, sep) == SplitFrom(q, sep, <<>>)

\* sep.join(pieces)
RECURSIVE Join(_, _)
Join(pieces, sep) ==
    IF pieces = <<>> THEN <<>>
    ELSE IF Len(pieces) = 1 THEN pieces[1]
    ELSE pieces[1] \o <<sep>> \o Join(Tail(pieces), sep)

DotDot == <<".", ".">>

\* the loop of posixpath.normpath over the components
RECURSIVE NormComps(_, _, _)
NormComps(comps, new, initial) ==
    IF comps = <<>> THEN new
    ELSE LET comp == Head(comps)
         IN  IF comp = <<>> \/ comp = <<".">>
             THEN NormComps(Tail(comps), new, initial)
             ELSE IF \/ comp # DotDot
                     \/ (initial = 0 /\ new = <<>>)
                     \/ (new # <<>> /\ Last(new) = DotDot)
             THEN NormComps(Tail(comps), Append(new, comp), initial)
             ELSE IF new # <<>>
             THEN NormComps(Tail(comps), Front(new), initial)
             ELSE NormComps(Tail(comps), new, initial)

\* the number of leading slashes posixpath.normpath keeps: 0, 1 or 2
InitialSlashes(q) ==
    IF ~StartsWith(q, <<"/">>) THEN 0
    ELSE IF StartsWith(q, <<"/", "/">>) /\ ~StartsWith(q, <<"/", "/", "/">>)
    THEN 2
    ELSE 1

\* posixpath.normpath
Normpath(q) ==
    IF q = <<>> THEN <<".">>
    ELSE LET initial == InitialSlashes(q)
             joined == Join(NormComps(Split(q, "/"), <<>>, initial), "/")
             full == [i \in 1..initial |-> "/"] \o joined
         IN  IF full = <<>> THEN <<".">> ELSE full

\* the remote argument as remotepath sees it: stripped, slashes forward
RemoteIn(q) == ReplaceBackslash(StripWs(q))

\* Remotepath that forgets to put the final slash back
RemotepathNormOnly(q) == Normpath(RemoteIn(q))

\* remotepath
Remotepath(q) ==
    LET remote == RemoteIn(q)
        remote_ == Normpath(remote)
    IN  IF EndsWith(remote, "/") THEN remote_ \o <<"/">> ELSE remote_

(* ------------------------- process invocation ------------------------- *)

\* the command line adb_cmd builds (the log parameter does not change it)
AdbCmd(a, serialno, emulator, w) ==
    [adb  |-> ADB_PATH,
     sel  |-> IF serialno # None /\ serialno # "" THEN <<"-s", serialno>>
              ELSE IF emulator THEN <<"-e">>
              ELSE <<>>,
     wait |-> w,
     arg  |-> a]

\* what sysprocess returns when the process was spawned and has exited
Sysprocess(rawout, rawerr) == <<Strip(rawout), Strip(rawerr)>>

\* the outcomes of the processes a device command can run into
ProcResults == {Sysprocess(o, "") : o \in RawOutputs}

\* AdbExecute.__call__: the call adb_cmd(arg, serialno=serialno, wait=self.wait)
AdbExecuteCall(a, serialno, w) == AdbCmd(a, serialno, FALSE, w)

(* -------------------------- device enumerator ------------------------- *)

\* the list-devices command of adb_devices
DevicesArg(qualifier) == IF qualifier THEN "devices -l " ELSE "devices "

\* 'offline' in l, for a line l given by its fields
Offline(l) == \E i \in 1..Len(l) : l[i] = "offline"

\* filter(pred, q) for a predicate given as the set of elements it accepts
RECURSIVE Filter(_, _)
Filter(q, keep) ==
    IF q = <<>> THEN <<>>
    ELSE IF Head(q) \in keep THEN <<Head(q)>> \o Filter(Tail(q), keep)
    ELSE Filter(Tail(q), keep)

\* stdout.strip().splitlines()[1:], then the onlineonly filter
DeviceListStr(listing, onlineonly) ==
    LET rest == IF listing = <<>> THEN <<>> ELSE Tail(listing)
    IN  IF onlineonly
        THEN Filter(rest, {l \in Range(rest) : ~Offline(l)})
        ELSE rest

\* dict([...]) raises ValueError unless every split line has two fields
ParseFails(lines) == \E i \in 1..Len(lines) : Len(lines[i]) # 2

\* adb_devices: the dict serial number -> status (when it does not raise)
AdbDevices(listing, onlineonly) ==
    DictOf(DeviceListStr(listing, onlineonly))

(* ------------------------------- state --------------------------------
   pc        position of the thread that called dispatch
   wait      the wait flag of the AdbExecute the dispatcher holds
   arg       the command handed to dispatch
   targets   the serialnos argument handed to dispatch
   kwargs    the keyword arguments dispatch hands on to adb_devices
   listing   stdout lines of the "adb devices" run of this call
   serialnos the resolved list of serial numbers
   pool      the ThreadPool of this call: "none", "open" or "closed"
   res       the AsyncResults, in submission order
   out       the list of the collected values
   result    the returned dict: its mapping and its iteration order
   error     the exception that ended the call, or None
   calls     every adb_cmd call so far, in the order the calls began
   ---------------------------------------------------------------------- *)
VARIABLES pc, wait, arg, targets, kwargs, listing, serialnos, pool, res,
          out, result, error, calls

(* the state of the layers around the dispatcher
   path      the remote path handed to remotepath
   pathres   whether remotepath has returned, and what
   superuser the superuser flag of the ShellExecutor a Shell holds
   shcall    the Shell method that was called, with its arguments
   handed    whether that method has handed a command to the dispatcher,
             and which
   handle    the Adb handle the application holds: its dispatcher (the
             number of the AdbMultiExecute object), its serialnos, and
             whether it was obtained by indexing another handle
   nexec     the number of AdbMultiExecute objects created so far
   probe     the last __iter__ or __len__ call on the handle: the outcome,
             and the lines "adb devices" printed for it, if any
   prev      what the __iter__ call on the handle before the last one
             yielded
   niter     the number of __iter__ calls that had to enumerate
   op        the command method called on the handle, and how far it is
   opret     what that method returned or raised
   ---------------------------------------------------------------------- *)
VARIABLES path, pathres, superuser, shcall, handed, handle, nexec, probe,
          prev, niter, op, opret

\* the variables of the handle layer
handlevars == <<handle, nexec, probe, prev, niter, op, opret>>

\* the variables a dispatch call does not touch
hvars == <<path, pathres, superuser, shcall, handed, handlevars>>

vars == <<pc, wait, arg, targets, kwargs, listing, serialnos, pool, res,
          out, result, error, calls, hvars>>

NoResult == [map |-> <<>>, order |-> <<>>]

Kwargs == [qualifier : BOOLEAN, onlineonly : BOOLEAN]

\* remotepath has not been called
NoPath == [done |-> FALSE, value |-> <<>>]

\* no Shell method has been called
NoShellCall == [op |-> "none", content |-> "", remote |-> <<>>,
                append |-> FALSE, kw |-> "absent"]

\* no command has been handed to the dispatcher
NotHanded == [done |-> FALSE, arg |-> <<>>]

\* nothing happens in the Shell layer
ShellQuiet ==
    /\ superuser = FALSE
    /\ shcall = NoShellCall
    /\ handed = NotHanded

\* no __iter__ or __len__ call has been made
NoProbe == [op |-> "none", status |-> "none", items |-> <<>>, n |-> 0,
            at |-> <<>>]

\* no Adb object has been constructed
NoHandle == [executor |-> 0, serialnos |-> NoTargets, indexed |-> FALSE]

\* no earlier __iter__ call
NoPrev == [valid |-> FALSE, items |-> <<>>]

\* no command method has been called on the handle
NoOp == [name |-> "none", state |-> "none"]

\* no command method has returned
NoReturn == [status |-> "none", kind |-> "none", map |-> <<>>, str |-> "",
             error |-> None]

\* no handle exists
HandleQuiet ==
    /\ handle = NoHandle
    /\ nexec = 0
    /\ probe = NoProbe
    /\ prev = NoPrev
    /\ niter = 0
    /\ op = NoOp
    /\ opret = NoReturn

\* nothing happens around the dispatcher
AuxQuiet ==
    /\ path = <<>>
    /\ pathres = NoPath
    /\ ShellQuiet
    /\ HandleQuiet

\* no dispatch call has been made
Quiet ==
    /\ pc = "idle"
    /\ arg = None
    /\ targets = NoTargets
    /\ kwargs = [qualifier |-> FALSE, onlineonly |-> FALSE]
    /\ listing = <<>>
    /\ serialnos = <<>>
    /\ pool = "none"
    /\ res = <<>>
    /\ out = <<>>
    /\ result = NoResult
    /\ error = None
    /\ calls = <<>>

\* AdbMultiExecute.__init__ / AdbExecute.__init__: no call made yet
Init ==
    /\ Quiet
    /\ wait \in BOOLEAN
    /\ AuxQuiet

\* a caller enters AdbMultiExecute.__call__(arg, serialnos, **kwargs)
Call ==
    /\ UNCHANGED hvars
    /\ pc = "idle"
    /\ \E a \in Args, t \in Targets, k \in Kwargs :
          /\ arg' = a
          /\ targets' = t
          /\ kwargs' = k
    /\ pc' = "resolve"
    /\ UNCHANGED <<wait, listing, serialnos, pool, res, out, result, error,
                   calls>>

\* adb_serialnos, explicit branch: a list or tuple as it is, else [serialnos]
ResolveExplicit ==
    /\ UNCHANGED hvars
    /\ pc = "resolve"
    /\ Truthy(targets)
    /\ serialnos' = targets.items
    /\ pc' = "pool"
    /\ UNCHANGED <<wait, arg, targets, kwargs, listing, pool, res, out,
                   result, error, calls>>

\* the adb_cmd call of adb_devices, with the outcome of its process
DevicesCall(outerr) ==
    [by |-> "adb_devices", job |-> 0,
     syscall |-> AdbCmd(DevicesArg(kwargs.qualifier), None, FALSE, FALSE),
     outerr |-> outerr]

\* adb_serialnos, enumerating branch: AdbExecute.devices(**kwargs).keys()
ResolveEnumerate ==
    /\ UNCHANGED hvars
    /\ pc = "resolve"
    /\ ~Truthy(targets)
    /\ \E l \in Listings :
          LET lines == DeviceListStr(l, kwargs.onlineonly)
          IN  /\ listing' = l
              /\ calls' = Append(calls, DevicesCall(<<"<listing>", "">>))
              /\ IF ParseFails(lines)
                 THEN /\ error' = "ValueError"
                      /\ pc' = "raised"
                      /\ UNCHANGED serialnos
                 ELSE /\ \E q \in KeyOrders(AdbDevices(l, kwargs.onlineonly)) :
                            serialnos' = q
                      /\ pc' = "pool"
                      /\ UNCHANGED error
    /\ UNCHANGED <<wait, arg, targets, kwargs, pool, res, out, result>>

\* ResolveSpawnFails with the error swallowed: dispatch goes on with no device
ResolveSpawnSwallowed ==
    /\ UNCHANGED hvars
    /\ pc = "resolve"
    /\ ~Truthy(targets)
    /\ calls' = Append(calls, DevicesCall(SpawnError))
    /\ serialnos' = <<>>
    /\ pc' = "pool"
    /\ UNCHANGED <<wait, arg, targets, kwargs, listing, pool, res, out,
                   result, error>>

\* adb_serialnos, enumerating branch, when adb cannot be spawned
ResolveSpawnFails ==
    /\ UNCHANGED hvars
    /\ pc = "resolve"
    /\ ~Truthy(targets)
    /\ calls' = Append(calls, DevicesCall(SpawnError))
    /\ error' = "OSError"
    /\ pc' = "raised"
    /\ UNCHANGED <<wait, arg, targets, kwargs, listing, serialnos, pool,
                   res, out, result>>

\* pool = ThreadPool(THREADS); res = list()
CreatePool ==
    /\ UNCHANGED hvars
    /\ pc = "pool"
    /\ pool' = "open"
    /\ res' = <<>>
    /\ pc' = "submit"
    /\ UNCHANGED <<wait, arg, targets, kwargs, listing, serialnos, out,
                   result, error, calls>>

\* the AsyncResult apply_async returns for a task that waits in the queue
Queued(s) == [serialno |-> s, state |-> "queued", ok |-> TRUE,
              value |-> NoValue]

\* one round of the loop: res.append(pool.apply_async(..., serialno=s))
Submit ==
    /\ UNCHANGED hvars
    /\ pc = "submit"
    /\ Len(res) < Len(serialnos)
    /\ res' = Append(res, Queued(serialnos[Len(res) + 1]))
    /\ UNCHANGED <<pc, wait, arg, targets, kwargs, listing, serialnos, pool,
                   out, result, error, calls>>

\* SubmitDone with a loop that stops one target early
SubmitDoneEarly ==
    /\ UNCHANGED hvars
    /\ pc = "submit"
    /\ Len(res) + 1 >= Len(serialnos)
    /\ pc' = "wait"
    /\ UNCHANGED <<wait, arg, targets, kwargs, listing, serialnos, pool,
                   res, out, result, error, calls>>

\* the loop over serialnos is exhausted
SubmitDone ==
    /\ UNCHANGED hvars
    /\ pc = "submit"
    /\ Len(res) = Len(serialnos)
    /\ pc' = "wait"
    /\ UNCHANGED <<wait, arg, targets, kwargs, listing, serialnos, pool,
                   res, out, result, error, calls>>

(* --------------------------- worker threads --------------------------- *)

Running == {i \in 1..Len(res) : res[i].state = "running"}

\* QueuedJobs of a pool that drops what it cannot run at once
QueuedJobsWithinPool ==
    {i \in 1..Len(res) : res[i].state = "queued" /\ i <= THREADS}

QueuedJobs == {i \in 1..Len(res) : res[i].state = "queued"}

\* WorkerFree of a pool that starts a thread per task
WorkerAlwaysFree == TRUE

\* a worker of the pool is free to take a task: the pool has THREADS workers
WorkerFree == Cardinality(Running) < THREADS

\* the call of self.executor a worker makes for job i
ExecutorCall(i) ==
    [by |-> "AdbExecute", job |-> i,
     syscall |-> AdbExecuteCall(arg, res[i].serialno, wait),
     outerr |-> NoValue]

\* a free worker takes the oldest queued task and calls the executor
WorkerStart ==
    /\ UNCHANGED hvars
    /\ pool # "none"
    /\ QueuedJobs # {}
    /\ WorkerFree
    /\ LET i == CHOOSE j \in QueuedJobs : \A k \in QueuedJobs : j <= k
       IN  /\ res' = [res EXCEPT ![i].state = "running"]
           /\ calls' = Append(calls, ExecutorCall(i))
    /\ UNCHANGED <<pc, wait, arg, targets, kwargs, listing, serialnos, pool,
                   out, result, error>>

\* SetResult that pairs by completion order: the outcome goes to the oldest
\* AsyncResult that is not ready, whichever job produced it
SetResultInCompletionOrder(r, i, ok, value) ==
    LET j == CHOOSE n \in 1..Len(r) :
                 /\ r[n].state # "done"
                 /\ \A m \in 1..Len(r) : r[m].state # "done" => n <= m
    IN  [r EXCEPT ![j].state = "done", ![j].ok = ok, ![j].value = value]

\* the pool hands the outcome of job i to the AsyncResult of job i
SetResult(r, i, ok, value) ==
    [r EXCEPT ![i].state = "done", ![i].ok = ok, ![i].value = value]

\* the position in calls of the executor call of job i
CallOf(i) ==
    CHOOSE k \in 1..Len(calls) :
        calls[k].by = "AdbExecute" /\ calls[k].job = i

\* the process of job i has exited: sysprocess returns its stripped output
WorkerFinish ==
    /\ UNCHANGED hvars
    /\ \E i \in Running, v \in ProcResults :
          /\ res' = SetResult(res, i, TRUE, v)
          /\ calls' = [calls EXCEPT ![CallOf(i)].outerr = v]
    /\ UNCHANGED <<pc, wait, arg, targets, kwargs, listing, serialnos, pool,
                   out, result, error>>

\* the process of job i cannot be spawned: subprocess.Popen raises
WorkerSpawnFails ==
    /\ UNCHANGED hvars
    /\ \E i \in Running :
          /\ res' = SetResult(res, i, FALSE, SpawnError)
          /\ calls' = [calls EXCEPT ![CallOf(i)].outerr = SpawnError]
    /\ UNCHANGED <<pc, wait, arg, targets, kwargs, listing, serialnos, pool,
                   out, result, error>>

(* ----------------------- collecting the results ----------------------- *)

\* ready of a collection that does not block
readyWithoutBlocking(r) == TRUE

\* what r.wait() and r.get() block on
ready(r) == r.state = "done"

\* [r.wait() for r in res]
WaitAll ==
    /\ UNCHANGED hvars
    /\ pc = "wait"
    /\ \A i \in 1..Len(res) : ready(res[i])
    /\ pc' = "get"
    /\ UNCHANGED <<wait, arg, targets, kwargs, listing, serialnos, pool,
                   res, out, result, error, calls>>

\* the jobs whose call raised: r.get() raises their exception again
Failed == {i \in 1..Len(res) : ~res[i].ok}

\* out = [r.get() for r in res], when no call raised
GetAll ==
    /\ UNCHANGED hvars
    /\ pc = "get"
    /\ \A i \in 1..Len(res) : ready(res[i])
    /\ Failed = {}
    /\ out' = [i \in 1..Len(res) |-> res[i].value]
    /\ pc' = "close"
    /\ UNCHANGED <<wait, arg, targets, kwargs, listing, serialnos, pool,
                   res, result, error, calls>>

\* out = [r.get() for r in res], when a call raised: the first such r.get()
\* raises, and __call__ ends there
GetRaises ==
    /\ UNCHANGED hvars
    /\ pc = "get"
    /\ \A i \in 1..Len(res) : ready(res[i])
    /\ Failed # {}
    /\ error' = "OSError"
    /\ pc' = "raised"
    /\ UNCHANGED <<wait, arg, targets, kwargs, listing, serialnos, pool,
                   res, out, result, calls>>

\* pool.close()
Close ==
    /\ UNCHANGED hvars
    /\ pc = "close"
    /\ pool' = "closed"
    /\ pc' = "return"
    /\ UNCHANGED <<wait, arg, targets, kwargs, listing, serialnos, res, out,
                   result, error, calls>>

\* dict(zip(*(serialnos, out)))
FleetResult(ids, values) == DictOf(Zip(ids, values))

\* return dict(zip(*(serialnos, out)))
Return ==
    /\ UNCHANGED hvars
    /\ pc = "return"
    /\ LET d == FleetResult(serialnos, out)
       IN  \E q \in KeyOrders(d) : result' = [map |-> d, order |-> q]
    /\ pc' = "returned"
    /\ UNCHANGED <<wait, arg, targets, kwargs, listing, serialnos, pool,
                   res, out, error, calls>>

(* ------------------------- path normalisation ------------------------- *)

\* a caller is about to hand some remote path to remotepath
PathInit ==
    /\ Quiet
    /\ wait = FALSE
    /\ path \in Paths
    /\ pathres = NoPath
    /\ ShellQuiet
    /\ HandleQuiet

\* remotepath(path) returns
CallRemotepath ==
    /\ ~pathres.done
    /\ pathres' = [done |-> TRUE, value |-> Remotepath(path)]
    /\ UNCHANGED <<pc, wait, arg, targets, kwargs, listing, serialnos, pool,
                   res, out, result, error, calls, path, superuser, shcall,
                   handed, handlevars>>

PathNext == CallRemotepath

PathSpec == PathInit /\ [][PathNext]_vars

(* ------------------------- shell command layer ----------------------- *)

\* the texts echoed by the modelled calls
Contents == {"abc", "x y"}

\* the remote paths of the modelled calls
Remotes == SeqsUpTo(PathChars, MaxRemote)

\* the superuser keyword a caller passes to a Shell method, if any
SuKeywords == {"absent", "True", "False"}

\* a command line as its words; a quoted word is <<"'", word, "'">> flat
Quoted(word) == <<"'">> \o word \o <<"'">>

\* Shell.echo: the command it renders
EchoCommand(content) == <<"echo">> \o Quoted(<<content>>)

\* Shell.redirect: the command it renders
RedirectCommand(content, remote, append) ==
    <<"echo">> \o Quoted(<<content>>)
        \o (IF append THEN <<">>">> ELSE <<">">>)
        \o Quoted(Remotepath(remote))

\* Shell.cat: the command it renders
CatCommand(remote) == <<"cat">> \o Quoted(Remotepath(remote))

\* kwargs.update(superuser=False) in echo and redirect
UpdateSuperuserFalse(kw) == "False"

\* Shell.su with a command and no login: 'su -c {command}'
SuCommand(command) == <<"su", "-c">> \o command

\* Adb.shell: the argument it hands to Adb.execute, and so to the dispatcher
AdbShellArg(a) == <<"shell">> \o Quoted(a)

\* ShellExecutor.__call__(arg, **kwargs): the keyword arguments are taken
\* and not read; self.superuser alone decides.  Under the flag the command
\* goes through Shell(self.adb).su, whose fresh ShellExecutor has no flag
\* and calls adb.shell.
ShellExecutorCall(flag, a, kw) ==
    IF flag THEN AdbShellArg(SuCommand(a)) ELSE AdbShellArg(a)

\* Shell.__init__(adb, **kwargs): the ShellExecutor gets its superuser flag
ShellInit ==
    /\ Quiet
    /\ wait = FALSE
    /\ path = <<>>
    /\ pathres = NoPath
    /\ superuser \in BOOLEAN
    /\ shcall = NoShellCall
    /\ handed = NotHanded
    /\ HandleQuiet

\* Shell.echo(content, **kwargs)
ShellEcho ==
    /\ shcall.op = "none"
    /\ \E c \in Contents, kw \in SuKeywords :
          /\ shcall' = [op |-> "echo", content |-> c, remote |-> <<>>,
                        append |-> FALSE, kw |-> kw]
          /\ handed' = [done |-> TRUE,
                        arg |-> ShellExecutorCall(superuser, EchoCommand(c),
                                                  UpdateSuperuserFalse(kw))]
    /\ UNCHANGED <<pc, wait, arg, targets, kwargs, listing, serialnos, pool,
                   res, out, result, error, calls, path, pathres, superuser,
                   handlevars>>

\* Shell.redirect(content, remote, append, **kwargs)
ShellRedirect ==
    /\ shcall.op = "none"
    /\ \E c \in Contents, r \in Remotes, ap \in BOOLEAN, kw \in SuKeywords :
          /\ shcall' = [op |-> "redirect", content |-> c, remote |-> r,
                        append |-> ap, kw |-> kw]
          /\ handed' = [done |-> TRUE,
                        arg |-> ShellExecutorCall(superuser,
                                                  RedirectCommand(c, r, ap),
                                                  UpdateSuperuserFalse(kw))]
    /\ UNCHANGED <<pc, wait, arg, targets, kwargs, listing, serialnos, pool,
                   res, out, result, error, calls, path, pathres, superuser,
                   handlevars>>

\* Shell.cat(remote, **kwargs)
ShellCat ==
    /\ shcall.op = "none"
    /\ \E r \in Remotes, kw \in SuKeywords :
          /\ shcall' = [op |-> "cat", content |-> "", remote |-> r,
                        append |-> FALSE, kw |-> kw]
          /\ handed' = [done |-> TRUE,
                        arg |-> ShellExecutorCall(superuser, CatCommand(r), kw)]
    /\ UNCHANGED <<pc, wait, arg, targets, kwargs, listing, serialnos, pool,
                   res, out, result, error, calls, path, pathres, superuser,
                   handlevars>>

ShellNext ==
    \/ ShellEcho
    \/ ShellRedirect
    \/ ShellCat

ShellSpec == ShellInit /\ [][ShellNext]_vars

(* ----------------------------- fleet handles -------------------------- *)

\* the serialnos a handle can be created with or indexed by
Scopes ==
    {NoTargets} \cup {StrTarget(s) : s \in Devices}
                \cup {ListTarget(q) : q \in SeqsUpTo(Devices, MaxScope)}

\* the keys a handle is indexed by: one serial number, or a list of them
Keys == Scopes \ {NoTargets}

\* the lines "adb devices" prints while handles are iterated
AttachedListings == SeqsUpTo(Lines, MaxAttached)

\* the characters of a serial number: what iterating the string yields
SerialChars(s) ==
    CASE s = "d1" -> <<"d", "1">>
      [] s = "d2" -> <<"d", "2">>
      [] OTHER    -> <<>>

\* an application is about to create handles
IterInit ==
    /\ Quiet
    /\ wait \in BOOLEAN
    /\ path = <<>>
    /\ pathres = NoPath
    /\ ShellQuiet
    /\ HandleQuiet

\* Adb.__init__(serialnos=t, **kwargs) with no dispatcher given: the handle
\* gets an AdbMultiExecute of its own
NewAdb ==
    /\ handle = NoHandle
    /\ \E t \in Scopes :
          handle' = [executor |-> nexec + 1, serialnos |-> t,
                     indexed |-> FALSE]
    /\ nexec' = nexec + 1
    /\ UNCHANGED <<pc, wait, arg, targets, kwargs, listing, serialnos, pool,
                   res, out, result, error, calls, path, pathres, superuser,
                   shcall, handed, probe, prev, niter, op, opret>>

\* Adb.__getitem__: Adb(serialnos=serialno, adbmultiexecute=self.executor)
GetItemHandle(h, key) ==
    [executor |-> h.executor, serialnos |-> key, indexed |-> TRUE]

\* handle[key]: the application goes on with the indexed handle, on which
\* nothing has been called yet
GetItem ==
    /\ handle # NoHandle
    /\ pc = "idle"
    /\ \E key \in Keys :
          LET new == GetItemHandle(handle, key)
          IN  /\ handle' = new
              /\ nexec' = IF new.executor > nexec THEN new.executor ELSE nexec
    /\ probe' = NoProbe
    /\ prev' = NoPrev
    /\ UNCHANGED <<pc, wait, arg, targets, kwargs, listing, serialnos, pool,
                   res, out, result, error, calls, path, pathres, superuser,
                   shcall, handed, niter, op, opret>>

\* what the last __iter__ call yielded, if it yielded
PrevOf(p) ==
    IF p.op = "iter" /\ p.status = "ok"
    THEN [valid |-> TRUE, items |-> p.items]
    ELSE NoPrev

\* Adb.__iter__ on a handle whose serialnos is true: iter(self.serialnos);
\* a list yields its elements, a string its characters
IterScoped ==
    /\ handle # NoHandle
    /\ Truthy(handle.serialnos)
    /\ probe' = [op |-> "iter", status |-> "ok",
                 items |-> IF handle.serialnos.kind = "str"
                           THEN SerialChars(handle.serialnos.items[1])
                           ELSE handle.serialnos.items,
                 n |-> 0, at |-> <<>>]
    /\ prev' = PrevOf(probe)
    /\ UNCHANGED <<pc, wait, arg, targets, kwargs, listing, serialnos, pool,
                   res, out, result, error, calls, path, pathres, superuser,
                   shcall, handed, handle, nexec, niter, op, opret>>

\* EnumeratedKeys of a handle that keeps what its first enumeration found
EnumeratedKeysCached(l) ==
    IF PrevOf(probe).valid
    THEN {probe.items}
    ELSE KeyOrders(AdbDevices(l, FALSE))

\* the keys __iter__ yields for the lines l that adb prints now
EnumeratedKeys(l) == KeyOrders(AdbDevices(l, FALSE))

\* Adb.__iter__ on a handle whose serialnos is false:
\* iter(self.executor.executor.devices().keys()), a new adb_devices call
IterUnscoped ==
    /\ handle # NoHandle
    /\ ~Truthy(handle.serialnos)
    /\ niter < MaxProbes
    /\ \E l \in AttachedListings :
          IF ParseFails(DeviceListStr(l, FALSE))
          THEN probe' = [op |-> "iter", status |-> "ValueError",
                         items |-> <<>>, n |-> 0, at |-> l]
          ELSE \E q \in EnumeratedKeys(l) :
                  probe' = [op |-> "iter", status |-> "ok", items |-> q,
                            n |-> 0, at |-> l]
    /\ calls' = Append(calls, DevicesCall(<<"<listing>", "">>))
    /\ prev' = PrevOf(probe)
    /\ niter' = niter + 1
    /\ UNCHANGED <<pc, wait, arg, targets, kwargs, listing, serialnos, pool,
                   res, out, result, error, path, pathres, superuser,
                   shcall, handed, handle, nexec, op, opret>>

\* Adb.__iter__ on a handle whose serialnos is false, when adb cannot be
\* spawned
IterSpawnFails ==
    /\ handle # NoHandle
    /\ ~Truthy(handle.serialnos)
    /\ niter < MaxProbes
    /\ probe' = [op |-> "iter", status |-> "OSError", items |-> <<>>,
                 n |-> 0, at |-> <<>>]
    /\ calls' = Append(calls, DevicesCall(SpawnError))
    /\ prev' = PrevOf(probe)
    /\ niter' = niter + 1
    /\ UNCHANGED <<pc, wait, arg, targets, kwargs, listing, serialnos, pool,
                   res, out, result, error, path, pathres, superuser,
                   shcall, handed, handle, nexec, op, opret>>

\* len(self.serialnos): None has no len(), a string has as many items as
\* characters, a list as many as elements
LenOfSerialnos(t) ==
    CASE t.kind = "none" -> [status |-> "TypeError", n |-> 0]
      [] t.kind = "str"  -> [status |-> "ok", n |-> Len(SerialChars(t.items[1]))]
      [] OTHER           -> [status |-> "ok", n |-> Len(t.items)]

\* Adb.__len__
LenOfHandle ==
    /\ handle # NoHandle
    /\ LET r == LenOfSerialnos(handle.serialnos)
       IN  probe' = [op |-> "len", status |-> r.status, items |-> <<>>,
                     n |-> r.n, at |-> <<>>]
    /\ UNCHANGED <<pc, wait, arg, targets, kwargs, listing, serialnos, pool,
                   res, out, result, error, calls, path, pathres, superuser,
                   shcall, handed, handle, nexec, prev, niter, op,
                   opret>>

IterNext ==
    \/ NewAdb
    \/ GetItem
    \/ IterScoped
    \/ IterUnscoped
    \/ IterSpawnFails
    \/ LenOfHandle

IterSpec == IterInit /\ [][IterNext]_vars

(* -------------------------- handle commands -------------------------- *)

\* the command methods of a handle that have a return statement
OpNames == {"shell", "get_serialno", "version", "help"}

\* the arg each method hands to execute; shell is called with 'pwd'
OpArg(name) ==
    CASE name = "shell"        -> "shell 'pwd'"
      [] name = "get_serialno" -> "get-serialno"
      [] name = "version"      -> "version"
      [] OTHER                 -> "help"

\* Adb.execute: self.executor(arg, serialnos=self.serialnos), with no
\* keyword for adb_devices
HandleExecute ==
    /\ handle # NoHandle
    /\ pc = "idle"
    /\ op = NoOp
    /\ \E name \in OpNames :
          /\ op' = [name |-> name, state |-> "running"]
          /\ arg' = OpArg(name)
    /\ targets' = handle.serialnos
    /\ kwargs' = [qualifier |-> FALSE, onlineonly |-> FALSE]
    /\ pc' = "resolve"
    /\ UNCHANGED <<wait, listing, serialnos, pool, res, out, result, error,
                   calls, path, pathres, superuser, shcall, handed, handle,
                   nexec, probe, prev, niter, opret>>

\* the method hands back the mapping execute returned
ReturnsMapping(r) ==
    [status |-> "ok", kind |-> "mapping", map |-> r.map, str |-> "",
     error |-> None]

\* stdout, stderr = r; return stdout: unpacking a dict takes its keys in
\* iteration order, and raises ValueError unless there are exactly two
ReturnsUnpacked(r) ==
    IF Len(r.order) = 2
    THEN [status |-> "ok", kind |-> "str", map |-> <<>>, str |-> r.order[1],
          error |-> None]
    ELSE [status |-> "raised", kind |-> "none", map |-> <<>>, str |-> "",
          error |-> "ValueError"]

\* what the method name makes of the mapping r that execute returned
MethodResult(name, r) ==
    IF name \in {"shell", "get_serialno"}
    THEN ReturnsMapping(r)
    ELSE ReturnsUnpacked(r)

\* the method ends: with what it makes of execute's mapping, or with the
\* exception execute raised
HandleReturn ==
    /\ op.state = "running"
    /\ pc \in {"returned", "raised"}
    /\ opret' = IF pc = "raised"
                THEN [status |-> "raised", kind |-> "none", map |-> <<>>,
                      str |-> "", error |-> error]
                ELSE MethodResult(op.name, result)
    /\ op' = [op EXCEPT !.state = "done"]
    /\ UNCHANGED <<pc, wait, arg, targets, kwargs, listing, serialnos, pool,
                   res, out, result, error, calls, path, pathres, superuser,
                   shcall, handed, handle, nexec, probe, prev, niter>>

HandleNext ==
    \/ NewAdb
    \/ GetItem
    \/ HandleExecute
    \/ ResolveExplicit
    \/ ResolveEnumerate
    \/ ResolveSpawnFails
    \/ CreatePool
    \/ Submit
    \/ SubmitDone
    \/ WorkerStart
    \/ WorkerFinish
    \/ WorkerSpawnFails
    \/ WaitAll
    \/ GetAll
    \/ GetRaises
    \/ Close
    \/ Return
    \/ HandleReturn

HandleSpec == IterInit /\ [][HandleNext]_vars

Next ==
    \/ Call
    \/ ResolveExplicit
    \/ ResolveEnumerate
    \/ ResolveSpawnFails
    \/ CreatePool
    \/ Submit
    \/ SubmitDone
    \/ WorkerStart
    \/ WorkerFinish
    \/ WorkerSpawnFails
    \/ WaitAll
    \/ GetAll
    \/ GetRaises
    \/ Close
    \/ Return

Spec == Init /\ [][Next]_vars

(* ------------------------------ fairness ------------------------------ *)

\* the steps of the thread that called dispatch
MainStep ==
    \/ Call
    \/ ResolveExplicit
    \/ ResolveEnumerate
    \/ ResolveSpawnFails
    \/ CreatePool
    \/ Submit
    \/ SubmitDone
    \/ WaitAll
    \/ GetAll
    \/ GetRaises
    \/ Close
    \/ Return

\* The operating system schedules the calling thread and the pool's worker
\* threads, and every process that was spawned exits.
LiveSpec ==
    /\ Spec
    /\ WF_vars(MainStep)
    /\ WF_vars(WorkerStart)
    /\ WF_vars(WorkerFinish \/ WorkerSpawnFails)

(* ------------------------------- claims ------------------------------- *)

\* the executor calls made so far (adb_cmd through AdbExecute.__call__)
ExecutorCalls == {k \in 1..Len(calls) : calls[k].by = "AdbExecute"}

\* the executor calls that carry the device selector -s d
CallsFor(d) == {k \in ExecutorCalls : calls[k].syscall.sel = <<"-s", d>>}

\* the positions of d in the sequence q
Occurrences(q, d) == {i \in 1..Len(q) : q[i] = d}

NoDuplicates(q) == \A i, j \in 1..Len(q) : q[i] = q[j] => i = j

\* C1: when dispatch was given a non-empty explicit target set and returns,
\* the key set of the returned mapping is exactly the set of identifiers of
\* the targets: none missing, none extra.
C1_KeySetEqualsTargets ==
    (pc = "returned" /\ Truthy(targets)) =>
        /\ DOMAIN result.map = Range(targets.items)
        /\ Range(result.order) = Range(targets.items)

C1_Witness ==
    /\ pc = "returned"
    /\ targets.kind = "list"
    /\ Len(targets.items) = 3
    /\ DOMAIN result.map = {"d1", "d2"}

\* C2: the iteration order of the returned mapping equals the order of the
\* resolved target sequence.
C2_ResultOrderIsTargetOrder ==
    pc = "returned" => result.order = serialnos

\* C3: when the resolved targets hold no duplicate and dispatch returns, the
\* value under identifier d is the (stdout, stderr) pair of the invocation
\* that carried the selector -s d, and of no other invocation.
C3_ValueIsOwnResult ==
    (pc = "returned" /\ NoDuplicates(serialnos)) =>
        \A d \in DOMAIN result.map :
            /\ CallsFor(d) # {}
            /\ \A k \in CallsFor(d) : calls[k].outerr = result.map[d]

C3_Witness ==
    /\ pc = "returned"
    /\ NoDuplicates(serialnos)
    /\ DOMAIN result.map = {"d1", "d2"}
    /\ result.map["d1"] # result.map["d2"]

\* C4: if exactly one device's invocation fails to spawn, dispatch does not
\* raise; it returns a mapping in which every other device holds its own
\* result.
C4_OneFailureIsIsolated ==
    (Cardinality(Failed) = 1 /\ pc \in {"raised", "returned"}) =>
        /\ pc = "returned"
        /\ \A i \in (1..Len(res)) \ Failed :
              /\ serialnos[i] \in DOMAIN result.map
              /\ result.map[serialnos[i]] = res[i].value

\* the calling thread is past the barrier of dispatch: it collects, closes,
\* returns, or has raised out of the collection
PastBarrier ==
    \/ pc \in {"get", "close", "return", "returned"}
    \/ pc = "raised" /\ pool # "none"

\* C5: one dispatch over the resolved sequence D issues exactly Len(D)
\* executor calls: one per position i of D, carrying the selector -s D[i];
\* no position is invoked twice or skipped, and no device outside D is
\* invoked (so a device is invoked as often as it occurs in D).
C5_OneCallPerTarget ==
    /\ \A k \in ExecutorCalls :
          /\ calls[k].job \in 1..Len(serialnos)
          /\ calls[k].syscall.sel = <<"-s", serialnos[calls[k].job]>>
          /\ \A m \in ExecutorCalls : calls[m].job = calls[k].job => m = k
    /\ PastBarrier =>
          /\ Cardinality(ExecutorCalls) = Len(serialnos)
          /\ \A d \in Devices :
                Cardinality(CallsFor(d)) = Cardinality(Occurrences(serialnos, d))

C5_Witness ==
    /\ PastBarrier
    /\ Len(serialnos) = 3
    /\ Cardinality(CallsFor("d1")) = 1
    /\ Cardinality(CallsFor("d2")) = 2

\* C6: when dispatch gets no targets and the enumerator finds no device,
\* dispatch fails with an error: it never returns an empty mapping.
C6_EmptyEnumerationFails ==
    (~Truthy(targets) /\ serialnos = <<>> /\ pc \in {"raised", "returned"}) =>
        /\ pc = "raised"
        /\ error # None

\* C7: at every moment of a dispatch, at most THREADS = 2 * cpu_count()
\* invocations are running.
C7_AtMostThreadsRunning ==
    Cardinality(Running) <= 2 * CpuCount

C7_Witness ==
    /\ Cardinality(Running) = 2 * CpuCount
    /\ QueuedJobs # {}

\* C8: when dispatch returns, every invocation it submitted has completed,
\* one was submitted per target, and the returned mapping holds a result for
\* each target.
C8_ReturnsAfterAllCompleted ==
    pc = "returned" =>
        /\ Len(res) = Len(serialnos)
        /\ \A i \in 1..Len(res) :
              /\ res[i].state = "done"
              /\ serialnos[i] \in DOMAIN result.map
              /\ result.map[serialnos[i]] \in ProcResults

C8_Witness ==
    /\ pc = "returned"
    /\ Len(res) = 3

\* the enumerator call of this dispatch failed: adb could not be spawned,
\* or a line of its output does not split into two fields
EnumeratorFailed ==
    \E k \in 1..Len(calls) :
        /\ calls[k].by = "adb_devices"
        /\ \/ calls[k].outerr = SpawnError
           \/ LET lines == DeviceListStr(listing, kwargs.onlineonly)
              IN  \E i \in 1..Len(lines) : Len(lines[i]) # 2

\* C10: when the targets are resolved by the enumerator and the enumerator
\* fails, dispatch ends with that error, and it has created no pool and
\* submitted no invocation.
C10_EnumeratorFailureEndsDispatch ==
    EnumeratorFailed =>
        /\ ~Truthy(targets)
        /\ pc = "raised"
        /\ error = (IF \E k \in 1..Len(calls) : calls[k].outerr = SpawnError
                    THEN "OSError" ELSE "ValueError")
        /\ pool = "none"
        /\ res = <<>>
        /\ ExecutorCalls = {}

C10_Witness ==
    /\ EnumeratorFailed
    /\ error = "ValueError"

\* every invocation submitted so far was spawned, or still can be
NoSpawnFailure == Failed = {}

\* a dispatch over more targets than the pool has workers
LargeDispatch == pc = "submit" /\ Len(serialnos) > 2 * CpuCount

\* every target's invocation has been executed, and dispatch has returned
AllExecutedAndReturned ==
    /\ pc = "returned"
    /\ \A i \in 1..Len(serialnos) :
          \E k \in ExecutorCalls :
              calls[k].job = i /\ calls[k].outerr \in ProcResults

\* C9: in a dispatch over more targets than the pool has workers, if every
\* invocation's process is spawned and exits, then under fair scheduling
\* every invocation is eventually executed and dispatch eventually returns.
C9_LargeDispatchCompletes ==
    [] NoSpawnFailure => (LargeDispatch ~> AllExecutedAndReturned)

C9_Witness ==
    /\ pc = "returned"
    /\ Len(serialnos) > 2 * CpuCount
    /\ Cardinality(ExecutorCalls) = Len(serialnos)

\* the first line "adb devices" prints
Header == <<"List of devices attached">>

\* the adb_cmd calls made by adb_devices
EnumeratorCalls == {k \in 1..Len(calls) : calls[k].by = "adb_devices"}

\* the enumerator's process ran and printed the lines held in listing
ListingObtained ==
    \E k \in EnumeratorCalls : calls[k].outerr # SpawnError

\* C17: whenever the output of "adb devices" does not start with the header
\* line, the enumerator fails with a parse error; it never drops a first
\* line that is no header and returns a mapping built from the other lines.
C17_MissingHeaderIsParseError ==
    (ListingObtained /\ (listing = <<>> \/ Head(listing) # Header)) =>
        /\ pc = "raised"
        /\ error = "ValueError"

\* the serialnos argument names at least one target
ExplicitTargets == targets.kind # "none" /\ targets.items # <<>>

\* C18: a non-empty explicit target list is used verbatim (same identifiers,
\* same order) and the enumerator is not called during that dispatch; when
\* the targets are absent or empty the enumerator is called exactly once,
\* before any invocation is submitted.
C18_EnumeratorOnlyWithoutTargets ==
    /\ pc \in {"idle", "resolve"} => calls = <<>> /\ res = <<>>
    /\ (pc \notin {"idle", "resolve"} /\ ExplicitTargets) =>
          /\ serialnos = targets.items
          /\ EnumeratorCalls = {}
    /\ (pc \notin {"idle", "resolve"} /\ ~ExplicitTargets) =>
          EnumeratorCalls = {1}

C18_Witness ==
    /\ pc = "returned"
    /\ targets = ListTarget(<<"d2", "d1">>)
    /\ serialnos = <<"d2", "d1">>
    /\ Cardinality(ExecutorCalls) = 2

\* C19: the pool a dispatch call creates is closed by the time the call
\* ends, both when it returns a mapping and when it ends with the error of a
\* per-device invocation.
C19_PoolClosedOnEveryExit ==
    (pc \in {"returned", "raised"} /\ pool # "none") => pool = "closed"

\* the last position of d in the sequence q
LastOccurrence(q, d) ==
    CHOOSE i \in Occurrences(q, d) : \A j \in Occurrences(q, d) : j <= i

\* C20: when the target list names an identifier more than once and dispatch
\* returns, every position of the list got its own invocation, and the
\* mapping holds one entry per distinct identifier, whose value is the
\* result of the invocation submitted for its last position in the list.
C20_DuplicatesLastWriteWins ==
    (pc = "returned" /\ ~NoDuplicates(serialnos)) =>
        /\ Cardinality(ExecutorCalls) = Len(serialnos)
        /\ \A i \in 1..Len(serialnos) : \E k \in ExecutorCalls : calls[k].job = i
        /\ DOMAIN result.map = Range(serialnos)
        /\ \A d \in DOMAIN result.map :
              \E k \in ExecutorCalls :
                  /\ calls[k].job = LastOccurrence(serialnos, d)
                  /\ calls[k].syscall.sel = <<"-s", d>>
                  /\ calls[k].outerr = result.map[d]

C20_Witness ==
    /\ pc = "returned"
    /\ serialnos = <<"d1", "d2", "d1">>
    /\ \E k, m \in ExecutorCalls :
          /\ calls[k].job = 1
          /\ calls[m].job = 3
          /\ calls[k].outerr # calls[m].outerr
          /\ result.map["d1"] = calls[m].outerr

\* C16, as claimed: remotepath(p) ends with the separator if and only if p,
\* stripped and with its backslashes turned into slashes, ends with it.
C16_TrailingSlashIffInput ==
    pathres.done =>
        (EndsWith(pathres.value, "/") <=> EndsWith(RemoteIn(path), "/"))

\* how many directories below the root an absolute path with the given
\* components ends: a name goes one down, ".." goes one up, never above the
\* root, and empty and "." components stay
RECURSIVE DepthBelowRoot(_, _)
DepthBelowRoot(comps, depth) ==
    IF comps = <<>> THEN depth
    ELSE IF Head(comps) = <<>> \/ Head(comps) = <<".">>
    THEN DepthBelowRoot(Tail(comps), depth)
    ELSE IF Head(comps) = DotDot
    THEN DepthBelowRoot(Tail(comps), IF depth = 0 THEN 0 ELSE depth - 1)
    ELSE DepthBelowRoot(Tail(comps), depth + 1)

\* an absolute path that denotes the root directory
DenotesRoot(q) ==
    StartsWith(q, <<"/">>) /\ DepthBelowRoot(Split(q, "/"), 0) = 0

\* C16, amended: a trailing separator of p (stripped, backslashes turned
\* into slashes) is always preserved, and when p has none the result has
\* none either, unless p is an absolute path that denotes the root directory
\* (such as "/.", "/.." or "/a/.."), for which the result is the root "/" or
\* "//".
C16_TrailingSlashPreserved ==
    pathres.done =>
        /\ EndsWith(RemoteIn(path), "/") => EndsWith(pathres.value, "/")
        /\ (~EndsWith(RemoteIn(path), "/") /\ ~DenotesRoot(RemoteIn(path))) =>
              ~EndsWith(pathres.value, "/")
        /\ (~EndsWith(RemoteIn(path), "/") /\ DenotesRoot(RemoteIn(path))) =>
              pathres.value \in {<<"/">>, <<"/", "/">>}

C16_Witness ==
    /\ pathres.done
    /\ path = <<"a", "\\", "\\", " ">>
    /\ pathres.value = <<"a", "/">>

\* the command line c holds the words su -c
WrappedInSu(c) ==
    \E i \in 1..(Len(c) - 1) : c[i] = "su" /\ c[i + 1] = "-c"

\* C14: whatever superuser flag the Shell's executor holds and whatever
\* superuser keyword the caller passes, the command echo and redirect hand
\* to the dispatcher is never wrapped in su -c.
C14_EchoNeverSuperuser ==
    (handed.done /\ shcall.op \in {"echo", "redirect"}) =>
        ~WrappedInSu(handed.arg)

\* the handle addresses every attached device: its serialnos is None or empty
Unscoped(h) == ~Truthy(h.serialnos)

\* the serial numbers on the lines l that adb prints below the header line
SerialsPrinted(l) == {l[i][1] : i \in 2..Len(l)}

\* C12: every iteration of an unscoped handle makes an adb_devices call of
\* its own, and yields the serial numbers adb printed for that call, whatever
\* an earlier iteration yielded.
C12_IterationEnumeratesAfresh ==
    (probe.op = "iter" /\ Unscoped(handle)) =>
        /\ Cardinality(EnumeratorCalls) = niter
        /\ niter >= 1
        /\ probe.status = "ok" =>
              /\ Range(probe.items) = SerialsPrinted(probe.at)
              /\ NoDuplicates(probe.items)

C12_Witness ==
    /\ handle = [executor |-> 1, serialnos |-> NoTargets, indexed |-> FALSE]
    /\ probe.op = "iter"
    /\ probe.status = "ok"
    /\ niter = 2
    /\ prev = [valid |-> TRUE, items |-> <<"d1">>]
    /\ probe.items = <<"d2">>

\* C13: len(handle) succeeds and is the number of serial numbers the handle
\* addresses: 1 for a handle indexed by one serial number, the length of the
\* list for a handle scoped to a list.
C13_LenCountsAddressedDevices ==
    probe.op = "len" =>
        /\ probe.status = "ok"
        /\ handle.serialnos.kind = "str" => probe.n = 1
        /\ handle.serialnos.kind = "list" =>
              probe.n = Len(handle.serialnos.items)

\* the handle was obtained by indexing a handle with the one serial number d
IndexedBy(d) == handle.indexed /\ handle.serialnos = StrTarget(d)

\* a command method of the handle has ended after its dispatch returned
MethodEnded == op.state = "done" /\ pc = "returned"

\* C11: a handle obtained by indexing holds the dispatcher of the handle it
\* was indexed from, no other dispatcher exists, and a method called on a
\* handle indexed by the serial number d runs one adb process, for d, and
\* returns a mapping whose only key is d.
C11_IndexedHandleIsScoped ==
    /\ handle.indexed => (nexec = 1 /\ handle.executor = 1)
    /\ \A d \in Devices :
          (IndexedBy(d) /\ MethodEnded) =>
              /\ Cardinality(ExecutorCalls) = 1
              /\ CallsFor(d) = ExecutorCalls
              /\ opret.kind = "mapping"
              /\ DOMAIN opret.map = {d}

\* C15: when shell, get_serialno, version or help ends after its dispatch
\* returned, it made that one dispatch with the handle's serialnos and
\* returns the mapping the dispatch returned.
C15_MethodReturnsDispatchMapping ==
    MethodEnded =>
        /\ targets = handle.serialnos
        /\ arg = OpArg(op.name)
        /\ opret.status = "ok"
        /\ opret.kind = "mapping"
        /\ opret.map = result.map

====
